---- MODULE Spec2Model ----
(***************************************************************************)
(* Order lifecycle and payment ledger of the tailoring-shop application:   *)
(* the zustand order store (store/orderStore.ts), the order-details and    *)
(* search screens that call it, the validation helpers, and the database   *)
(* tables with their row-level-security policies.                          *)
(*                                                                         *)
(* Every `await supabase...` of the store is two steps: the database       *)
(* executes the statement (Db... actions) and leaves the response in the   *)
(* task; the store's continuation consumes it (After... actions).  Several *)
(* devices (Clients) run the application against one database.             *)
(*                                                                         *)
(* Amounts are whole riyals (integers); text inputs are sequences of       *)
(* one-character strings over sign, digits and a non-numeric character.    *)
(***************************************************************************)
EXTENDS Integers, Sequences, FiniteSets, Bags, TLC

(* ------------------------------ bounds -------------------------------- *)
MaxOrders == 1
MaxPayments == 2
MaxTasks == 2
MaxActs == 5
MaxCalls == 3
MaxNotifications == 2
MaxScreenActs == 4

Clients == {"c1", "c2"}
Roles == {"muteer", "karigar"}
Statuses == {"pending", "stitched", "delivered"}

(* texts typed into the payment-amount field, each with the amount the    *)
(* user means by it (isNum FALSE: the text is no number)                  *)
PaymentInputs ==
  { [text |-> <<>>, isNum |-> FALSE, num |-> 0],
    [text |-> <<"x">>, isNum |-> FALSE, num |-> 0],
    [text |-> <<"0">>, isNum |-> TRUE, num |-> 0],
    [text |-> <<"-", "5", "0">>, isNum |-> TRUE, num |-> 0 - 50],
    [text |-> <<"5", "0">>, isNum |-> TRUE, num |-> 50],
    [text |-> <<"2", "5", "0">>, isNum |-> TRUE, num |-> 250],
    [text |-> <<"3", "0", "0">>, isNum |-> TRUE, num |-> 300] }

(* balances the payment validation is probed with *)
RemainingInputs == {0 - 200, 0, 49, 50, 51, 250, 300, 500}

(* (total, deposit) texts of the new-order form *)
OrderInputs ==
  { [total |-> <<"3", "0", "0">>, deposit |-> <<>>],
    [total |-> <<"3", "0", "0">>, deposit |-> <<"3", "0", "0">>],
    [total |-> <<"5", "0">>, deposit |-> <<"2", "5", "0">>],
    [total |-> <<"0">>, deposit |-> <<>>],
    [total |-> <<"3", "0", "0">>, deposit |-> <<"-", "5", "0">>] }

(* texts of one amount field of the new-order form, with the number meant  *)
AmountInputs ==
  { [text |-> <<>>, given |-> FALSE, isNum |-> FALSE, num |-> 0],
    [text |-> <<"x">>, given |-> TRUE, isNum |-> FALSE, num |-> 0],
    [text |-> <<"0">>, given |-> TRUE, isNum |-> TRUE, num |-> 0],
    [text |-> <<"-", "5">>, given |-> TRUE, isNum |-> TRUE, num |-> 0 - 5],
    [text |-> <<"5", "0">>, given |-> TRUE, isNum |-> TRUE, num |-> 50],
    [text |-> <<"3", "0", "0">>, given |-> TRUE, isNum |-> TRUE, num |-> 300] }

(* ----------------------------- parseFloat ----------------------------- *)
Digits == {"0", "1", "2", "3", "4", "5", "6", "7", "8", "9"}

DigitVal(ch) ==
  CASE ch = "0" -> 0 [] ch = "1" -> 1 [] ch = "2" -> 2 [] ch = "3" -> 3
    [] ch = "4" -> 4 [] ch = "5" -> 5 [] ch = "6" -> 6 [] ch = "7" -> 7
    [] ch = "8" -> 8 [] ch = "9" -> 9

RECURSIVE DigitPrefix(_, _, _)
(* value and length of the longest prefix of digits of s, from position i *)
DigitPrefix(s, i, acc) ==
  IF i <= Len(s) /\ s[i] \in Digits
    THEN DigitPrefix(s, i + 1, [val |-> acc.val * 10 + DigitVal(s[i]), n |-> acc.n + 1])
    ELSE acc

(* JavaScript parseFloat on the model's alphabet: optional sign, then the   *)
(* longest run of digits; NaN when there is no digit.                       *)
ParseFloat(s) ==
  LET signed == Len(s) > 0 /\ s[1] \in {"-", "+"}
      start == IF signed THEN 2 ELSE 1
      p == DigitPrefix(s, start, [val |-> 0, n |-> 0])
  IN IF p.n = 0 THEN [nan |-> TRUE, val |-> 0]
     ELSE [nan |-> FALSE, val |-> IF signed /\ s[1] = "-" THEN 0 - p.val ELSE p.val]

(* --------------------------- validation ------------------------------- *)
(* variant that also turns away an amount equal to the balance *)
validatePaymentAmount_ExcessAtEqual(amount, remaining) ==
  LET value == ParseFloat(amount)
  IN IF value.nan \/ value.val <= 0 THEN "nonpositive"
     ELSE IF value.val >= remaining THEN "excess"
     ELSE "ok"

(* utils/helpers.ts validatePaymentAmount: null (here "ok") or the message *)
validatePaymentAmount(amount, remaining) ==
  LET value == ParseFloat(amount)
  IN IF value.nan \/ value.val <= 0 THEN "nonpositive"
     ELSE IF value.val > remaining THEN "excess"
     ELSE "ok"

(* add-order screen validateForm, amounts part: the keys of newErrors       *)
validateFormErrors(totalAmount, depositAmount) ==
  LET total == ParseFloat(totalAmount)
      deposit == IF Len(depositAmount) > 0 THEN ParseFloat(depositAmount)
                 ELSE [nan |-> FALSE, val |-> 0]
  IN (IF Len(totalAmount) = 0 \/ total.nan \/ total.val <= 0
        THEN {"totalAmount"} ELSE {})
     \cup
     (IF (Len(depositAmount) > 0 /\ (deposit.nan \/ deposit.val < 0))
           \/ (~deposit.nan /\ ~total.nan /\ deposit.val > total.val)
        THEN {"depositAmount"} ELSE {})

(* variant of validateForm without the bound deposit <= total *)
validateForm_NoDepositBound(totalAmount, depositAmount) ==
  LET total == ParseFloat(totalAmount)
      deposit == IF Len(depositAmount) > 0 THEN ParseFloat(depositAmount)
                 ELSE [nan |-> FALSE, val |-> 0]
  IN /\ Len(totalAmount) > 0
     /\ ~(total.nan \/ total.val <= 0)
     /\ ~(Len(depositAmount) > 0 /\ (deposit.nan \/ deposit.val < 0))

(* add-order screen validateForm: TRUE when newErrors has no key *)
validateForm(totalAmount, depositAmount) ==
  validateFormErrors(totalAmount, depositAmount) = {}

(* utils/helpers.ts validateOrderFields, amounts part: the keys of errors;  *)
(* the amounts are looked at only when totalAmount is filled, the deposit   *)
(* only when depositAmount is filled too                                    *)
validateOrderFields(totalAmount, depositAmount) ==
  IF Len(totalAmount) = 0 THEN {}
  ELSE LET total == ParseFloat(totalAmount)
           deposit == ParseFloat(depositAmount)
       IN (IF total.nan \/ total.val <= 0 THEN {"totalAmount"} ELSE {})
          \cup
          (IF Len(depositAmount) > 0
                /\ (\/ deposit.nan
                    \/ deposit.val < 0
                    \/ (~total.nan /\ deposit.val > total.val))
             THEN {"depositAmount"} ELSE {})

(* ------------------------------ state --------------------------------- *)
VARIABLES
  role,          \* profiles.role of the user signed in on each device
  dbOrders,      \* table orders: sequence of rows, row i has id i
  dbPayments,    \* table payments: sequence of rows in insertion order
  currentOrder,  \* store.currentOrder per device (NoOrder for null)
  orders,        \* store.orders per device: the list of orders, first entry first
  isLoading,     \* store.isLoading per device
  error,         \* store.error per device ("" for null)
  tasks,         \* per device, the bag of store operations in flight
  alert,         \* per device, the last Alert.alert shown by a handler
  confirmFor,    \* per device, order id of the open delivery warning (0: none)
  acts,          \* number of user actions made so far; the time of the next one
  dbNotifications, \* table notifications: sequence of rows, row i has id i
  notifications, \* notification store: notifications per device, as last fetched
  unreadCount,   \* notification store: unreadCount per device
  auth,          \* auth store per device: user, profile ("none" for null),
                 \* isLoading, and the session held by the supabase client
  probe          \* one application of a validation helper: inputs and result

notifVars == <<dbNotifications, notifications, unreadCount>>

appVars == <<role, dbOrders, dbPayments, currentOrder, orders, isLoading, error,
             tasks, alert, confirmFor, acts, notifVars, auth>>

vars == <<appVars, probe>>

NoOrder ==
  [id |-> 0, status |-> "pending", total_amount |-> 0, deposit_amount |-> 0,
   remaining_amount |-> 0, completed_at |-> 0, delivered_at |-> 0]

NoTask ==
  [op |-> "none", pc |-> "none", via |-> "none", id |-> 0, status |-> "pending",
   amount |-> 0, stamp |-> 0, payment |-> 0, target |-> 0, newRemaining |-> 0,
   ok |-> TRUE, row |-> NoOrder, prior |-> "none", err |-> "none", profiles |-> {}, user |-> "none", list |-> <<>>, rows |-> <<>>]

OrderIds == 1..Len(dbOrders)

(* store getters of authStore.ts *)
isMuteer(c) == role[c] = "muteer"
isKarigar(c) == role[c] = "karigar"

NoProbe == [fn |-> "none", input |-> [text |-> <<>>, isNum |-> FALSE, num |-> 0],
            remaining |-> 0, result |-> "unset"]

(* authStore.ts initial state: user null, profile null, isLoading true *)
NoAuth == [user |-> "none", profile |-> "none", isLoading |-> TRUE, session |-> FALSE]

AppInit ==
  /\ role \in [Clients -> Roles]
  /\ dbOrders = <<>>
  /\ dbPayments = <<>>
  /\ currentOrder = [c \in Clients |-> NoOrder]
  /\ orders = [c \in Clients |-> <<>>]
  /\ isLoading = [c \in Clients |-> FALSE]
  /\ error = [c \in Clients |-> ""]
  /\ tasks = [c \in Clients |-> EmptyBag]
  /\ alert = [c \in Clients |-> "none"]
  /\ confirmFor = [c \in Clients |-> 0]
  /\ acts = 0
  /\ dbNotifications = <<>>
  /\ notifications = [c \in Clients |-> <<>>]
  /\ unreadCount = [c \in Clients |-> 0]
  /\ auth = [c \in Clients |-> NoAuth]

Init == AppInit /\ probe = NoProbe

(* ----------------------------- helpers -------------------------------- *)
InFlight(c) == BagToSet(tasks[c])

CanStart(c) == BagCardinality(tasks[c]) < MaxTasks /\ acts < MaxActs

Start(c, t) == tasks' = [tasks EXCEPT ![c] = @ (+) SetToBag({t})]

Advance(c, t, u) == tasks' = [tasks EXCEPT ![c] = (@ (-) SetToBag({t})) (+) SetToBag({u})]

Finish(c, t) == tasks' = [tasks EXCEPT ![c] = @ (-) SetToBag({t})]

At(c, t, op, pc) == BagIn(t, tasks[c]) /\ t.op = op /\ t.pc = pc

(* number of tasks of all devices that are at (op, pc) *)
RECURSIVE CountAt(_, _, _)
CountAt(cs, op, pc) ==
  IF cs = {} THEN 0
  ELSE LET c == CHOOSE x \in cs : TRUE
           at == {t \in InFlight(c) : t.op = op /\ t.pc = pc}
       IN BagCardinality([t \in at |-> CopiesIn(t, tasks[c])]) + CountAt(cs \ {c}, op, pc)

(* the model stops creating rows at its bounds *)
RoomForOrder == Len(dbOrders) + CountAt(Clients, "createOrder", "insert") < MaxOrders

RoomForPayment == Len(dbPayments) + CountAt(Clients, "addPayment", "insert") < MaxPayments

(* ------------------- row-level security (migration) ------------------- *)
(* policy "Muteer can update orders": USING, and WITH CHECK by default *)
MuteerCanUpdateOrders(c) == role[c] = "muteer"

(* variant without the karigar's policy: no row is selected for a karigar *)
KarigarCanUpdateUsing_Never(c) == role[c] = "nobody"

(* policy "Karigar can update order status to stitched": USING *)
KarigarCanUpdateUsing(c) == role[c] = "karigar"

(* variant of the WITH CHECK clause that admits every status *)
KarigarCanUpdateCheck_AnyStatus(newRow) == newRow.status \in Statuses

(* policy "Karigar can update order status to stitched": WITH CHECK *)
KarigarCanUpdateCheck(newRow) == newRow.status = "stitched"

(* permissive policies are OR-ed: the USING clauses select the rows an     *)
(* UPDATE may touch, the WITH CHECK clauses judge the new row.             *)
OrdersUpdateUsing(c) == MuteerCanUpdateOrders(c) \/ KarigarCanUpdateUsing(c)

OrdersUpdateCheck(c, newRow) == MuteerCanUpdateOrders(c) \/ KarigarCanUpdateCheck(newRow)

(* policy "Muteer can insert orders" *)
MuteerCanInsertOrders(c) == role[c] = "muteer"

(* policy "Muteer can insert payments" *)
MuteerCanInsertPayments(c) == role[c] = "muteer"

(* payments.amount NUMERIC NOT NULL CHECK (amount > 0) *)
PaymentAmountCheck(amount) == amount > 0

(* UPDATE orders SET ... WHERE id = ..., by the user of device c:          *)
(* [ok, rows]: no row matched or visible gives ok with rows unchanged, a   *)
(* new row rejected by WITH CHECK gives an error.                          *)
UpdateOrder(c, id, newRow) ==
  IF id \notin OrderIds \/ ~OrdersUpdateUsing(c)
    THEN [ok |-> TRUE, rows |-> dbOrders]
  ELSE IF ~OrdersUpdateCheck(c, newRow)
    THEN [ok |-> FALSE, rows |-> dbOrders]
  ELSE [ok |-> TRUE, rows |-> [dbOrders EXCEPT ![id] = newRow]]

(* the error of that UPDATE: "policy" (new row violates row-level security *)
(* policy) when WITH CHECK rejects the new row, otherwise "none"            *)
UpdateOrderError(c, id, newRow) ==
  IF id \in OrderIds /\ OrdersUpdateUsing(c) /\ ~OrdersUpdateCheck(c, newRow)
    THEN "policy" ELSE "none"

(* policy "Users can read their own profile": USING (auth.uid() = id)      *)
CanReadProfile(c, u) == u = c

(* ------------------------------- authStore ---------------------------- *)
(* signIn(email, password) up to supabase.auth.signInWithPassword; good:   *)
(* the credentials are those of the device's user                           *)
SignIn(c, good) ==
  /\ CanStart(c)
  /\ Start(c, [NoTask EXCEPT !.op = "signIn", !.pc = "password", !.ok = good])
  /\ acts' = acts + 1
  /\ UNCHANGED <<probe, auth, orders, notifVars, role, dbOrders, dbPayments, currentOrder,
                 isLoading, error, alert, confirmFor>>

(* supabase.auth.signInWithPassword: a session on success *)
DbSignInWithPassword(c, t, fail) ==
  /\ At(c, t, "signIn", "password")
  /\ LET ok == t.ok /\ ~fail
     IN /\ auth' = [auth EXCEPT ![c].session = IF ok THEN TRUE ELSE @]
        /\ Advance(c, t, [t EXCEPT !.pc = "signedIn", !.ok = ok])
  /\ UNCHANGED <<probe, orders, notifVars, role, dbOrders, dbPayments, currentOrder,
                 isLoading, error, alert, confirmFor, acts>>

(* if (error) return { error }; otherwise the profile is fetched *)
AfterSignInWithPassword(c, t) ==
  /\ At(c, t, "signIn", "signedIn")
  /\ IF t.ok THEN Advance(c, t, [t EXCEPT !.pc = "profile"]) ELSE Finish(c, t)
  /\ UNCHANGED <<probe, auth, orders, notifVars, role, dbOrders, dbPayments, currentOrder,
                 isLoading, error, alert, confirmFor, acts>>

(* refreshSession up to supabase.auth.getSession *)
RefreshSession(c) ==
  /\ CanStart(c)
  /\ auth' = [auth EXCEPT ![c].isLoading = TRUE]
  /\ Start(c, [NoTask EXCEPT !.op = "refreshSession", !.pc = "session"])
  /\ acts' = acts + 1
  /\ UNCHANGED <<probe, orders, notifVars, role, dbOrders, dbPayments, currentOrder,
                 isLoading, error, alert, confirmFor>>

(* supabase.auth.getSession: the session the client holds, if any *)
GetSession(c, t) ==
  /\ At(c, t, "refreshSession", "session")
  /\ Advance(c, t, [t EXCEPT !.pc = "gotSession", !.ok = auth[c].session])
  /\ UNCHANGED <<probe, auth, orders, notifVars, role, dbOrders, dbPayments, currentOrder,
                 isLoading, error, alert, confirmFor, acts>>

(* if (session?.user) the profile is fetched, else the store is cleared *)
AfterGetSession(c, t) ==
  /\ At(c, t, "refreshSession", "gotSession")
  /\ IF t.ok
       THEN Advance(c, t, [t EXCEPT !.pc = "profile"]) /\ UNCHANGED auth
       ELSE /\ auth' = [auth EXCEPT ![c].user = "none", ![c].profile = "none",
                                    ![c].isLoading = FALSE]
            /\ Finish(c, t)
  /\ UNCHANGED <<probe, orders, notifVars, role, dbOrders, dbPayments, currentOrder,
                 isLoading, error, alert, confirmFor, acts>>

(* SELECT * FROM profiles WHERE id = user.id .single(): the user's own     *)
(* profile; the error is not read and data is null on a failure             *)
DbSelectProfile(c, t, fail) ==
  /\ BagIn(t, tasks[c]) /\ t.op \in {"signIn", "refreshSession"} /\ t.pc = "profile"
  /\ Advance(c, t, [t EXCEPT !.pc = "gotProfile", !.ok = ~fail /\ CanReadProfile(c, c)])
  /\ UNCHANGED <<probe, auth, orders, notifVars, role, dbOrders, dbPayments, currentOrder,
                 isLoading, error, alert, confirmFor, acts>>

(* set({ user, profile: profileData, isLoading: false }) *)
AfterSelectProfile(c, t) ==
  /\ BagIn(t, tasks[c]) /\ t.op \in {"signIn", "refreshSession"} /\ t.pc = "gotProfile"
  /\ auth' = [auth EXCEPT ![c].user = c,
                          ![c].profile = IF t.ok THEN role[c] ELSE "none",
                          ![c].isLoading = FALSE]
  /\ Finish(c, t)
  /\ UNCHANGED <<probe, orders, notifVars, role, dbOrders, dbPayments, currentOrder,
                 isLoading, error, alert, confirmFor, acts>>

(* signOut up to supabase.auth.signOut *)
SignOut(c) ==
  /\ CanStart(c)
  /\ Start(c, [NoTask EXCEPT !.op = "signOut", !.pc = "signOut"])
  /\ acts' = acts + 1
  /\ UNCHANGED <<probe, auth, orders, notifVars, role, dbOrders, dbPayments, currentOrder,
                 isLoading, error, alert, confirmFor>>

(* supabase.auth.signOut: the client drops its session *)
DbSignOut(c, t) ==
  /\ At(c, t, "signOut", "signOut")
  /\ auth' = [auth EXCEPT ![c].session = FALSE]
  /\ Advance(c, t, [t EXCEPT !.pc = "signedOut"])
  /\ UNCHANGED <<probe, orders, notifVars, role, dbOrders, dbPayments, currentOrder,
                 isLoading, error, alert, confirmFor, acts>>

(* set({ user: null, profile: null }) *)
AfterSignOut(c, t) ==
  /\ At(c, t, "signOut", "signedOut")
  /\ auth' = [auth EXCEPT ![c].user = "none", ![c].profile = "none"]
  /\ Finish(c, t)
  /\ UNCHANGED <<probe, orders, notifVars, role, dbOrders, dbPayments, currentOrder,
                 isLoading, error, alert, confirmFor, acts>>

(* ------------------------------ fetchOrders --------------------------- *)
(* orders screen and dashboard (loadData, onRefresh): store fetchOrders up *)
(* to its select                                                            *)
FetchOrders(c) ==
  /\ CanStart(c)
  /\ isLoading' = [isLoading EXCEPT ![c] = TRUE]
  /\ error' = [error EXCEPT ![c] = ""]
  /\ Start(c, [NoTask EXCEPT !.op = "fetchOrders", !.pc = "select"])
  /\ acts' = acts + 1
  /\ UNCHANGED <<probe, auth, orders, notifVars, role, dbOrders, dbPayments, currentOrder, alert, confirmFor>>

(* SELECT * FROM orders ORDER BY created_at DESC: the newest order first *)
AllOrders == [i \in 1..Len(dbOrders) |-> dbOrders[Len(dbOrders) + 1 - i]]

DbSelectOrders(c, t, fail) ==
  /\ At(c, t, "fetchOrders", "select")
  /\ Advance(c, t, [t EXCEPT !.pc = "selected", !.ok = ~fail,
                             !.rows = IF fail THEN <<>> ELSE AllOrders])
  /\ UNCHANGED <<probe, auth, orders, notifVars, role, dbOrders, dbPayments, currentOrder, isLoading, error, alert, confirmFor, acts>>

(* set({ orders: data, isLoading: false }), or the catch block *)
AfterSelectOrders(c, t) ==
  /\ At(c, t, "fetchOrders", "selected")
  /\ IF t.ok
       THEN orders' = [orders EXCEPT ![c] = t.rows] /\ UNCHANGED error
       ELSE error' = [error EXCEPT ![c] = "error"] /\ UNCHANGED orders
  /\ isLoading' = [isLoading EXCEPT ![c] = FALSE]
  /\ Finish(c, t)
  /\ UNCHANGED <<probe, auth, notifVars, role, dbOrders, dbPayments, currentOrder, alert, confirmFor, acts>>

(* ------------------- getOrderById / searchOrderBySerial --------------- *)
(* order-details screen loadOrderData -> getOrderById(id) *)
OpenOrder(c, id) ==
  /\ CanStart(c)
  /\ id \in OrderIds
  /\ isLoading' = [isLoading EXCEPT ![c] = TRUE]
  /\ error' = [error EXCEPT ![c] = ""]
  /\ Start(c, [NoTask EXCEPT !.op = "getOrderById", !.pc = "select", !.via = "details", !.id = id])
  /\ acts' = acts + 1
  /\ UNCHANGED <<probe, auth, orders, notifVars, role, dbOrders, dbPayments, currentOrder, alert, confirmFor>>

(* search tab (shown to the karigar) handleSearch -> searchOrderBySerial;  *)
(* the serial of order i is i, a serial above Len(dbOrders) matches no row *)
Search(c, serial) ==
  /\ CanStart(c)
  /\ isKarigar(c)
  /\ serial \in 1..MaxOrders
  /\ ~isLoading[c]
  /\ isLoading' = [isLoading EXCEPT ![c] = TRUE]
  /\ error' = [error EXCEPT ![c] = ""]
  /\ Start(c, [NoTask EXCEPT !.op = "searchOrderBySerial", !.pc = "select", !.via = "search", !.id = serial])
  /\ acts' = acts + 1
  /\ UNCHANGED <<probe, auth, orders, notifVars, role, dbOrders, dbPayments, currentOrder, alert, confirmFor>>

IsSelect(c, t) == At(c, t, "getOrderById", "select") \/ At(c, t, "searchOrderBySerial", "select")

(* SELECT * FROM orders WHERE id/serial = ... .single(); policy "All       *)
(* authenticated users can view orders"; no row or an outage is an error   *)
DbSelectOrder(c, t, fail) ==
  /\ IsSelect(c, t)
  /\ LET found == ~fail /\ t.id \in OrderIds
     IN Advance(c, t, [t EXCEPT !.pc = "selected", !.ok = found,
                                !.row = IF found THEN dbOrders[t.id] ELSE NoOrder])
  /\ UNCHANGED <<probe, auth, orders, notifVars, role, dbOrders, dbPayments, currentOrder, isLoading, error, alert, confirmFor, acts>>

AfterSelectOrder(c, t) ==
  /\ At(c, t, "getOrderById", "selected") \/ At(c, t, "searchOrderBySerial", "selected")
  /\ IF t.ok
          THEN /\ currentOrder' = [currentOrder EXCEPT ![c] = t.row]
               /\ UNCHANGED error
          ELSE /\ error' = [error EXCEPT ![c] = "error"]
               /\ UNCHANGED currentOrder
  /\ isLoading' = [isLoading EXCEPT ![c] = FALSE]
  /\ Finish(c, t)
  /\ UNCHANGED <<probe, auth, orders, notifVars, role, dbOrders, dbPayments, alert, confirmFor, acts>>

(* ------------------------------ createOrder --------------------------- *)
(* store createOrder(orderData) up to its insert: the row sent is          *)
(* { ...orderData, remaining_amount: total - deposit, status: 'pending' }  *)
createOrder(c, orderData, via) ==
  LET total == orderData.total_amount
      deposit == orderData.deposit_amount
      remaining == total - deposit
  IN /\ isLoading' = [isLoading EXCEPT ![c] = TRUE]
     /\ error' = [error EXCEPT ![c] = ""]
     /\ Start(c, [NoTask EXCEPT !.op = "createOrder", !.pc = "insert", !.via = via,
                    !.row = [orderData EXCEPT !.remaining_amount = remaining,
                                              !.status = "pending"]])

(* add-order screen (tab shown to the muteer) handleCreateOrder, then      *)
(* store createOrder up to its insert                                      *)
HandleCreateOrder(c, in) ==
  /\ CanStart(c)
  /\ RoomForOrder
  /\ isMuteer(c)
  /\ IF ~validateForm(in.total, in.deposit)
       THEN /\ alert' = [alert EXCEPT ![c] = "form_errors"]
            /\ UNCHANGED <<isLoading, error, tasks>>
       ELSE LET total == ParseFloat(in.total).val
                deposit == IF Len(in.deposit) > 0 THEN ParseFloat(in.deposit).val ELSE 0
            IN /\ createOrder(c, [NoOrder EXCEPT !.total_amount = total,
                                                 !.deposit_amount = deposit], "form")
               /\ UNCHANGED alert
  /\ acts' = acts + 1
  /\ UNCHANGED <<probe, auth, orders, notifVars, role, dbOrders, dbPayments, currentOrder, confirmFor>>

(* INSERT INTO orders ... .select().single() *)
DbInsertOrder(c, t, fail) ==
  /\ At(c, t, "createOrder", "insert")
  /\ LET ok == ~fail /\ MuteerCanInsertOrders(c)
         new == [t.row EXCEPT !.id = Len(dbOrders) + 1]
     IN /\ dbOrders' = IF ok THEN Append(dbOrders, new) ELSE dbOrders
        /\ Advance(c, t, [t EXCEPT !.pc = "inserted", !.ok = ok,
                                   !.row = IF ok THEN new ELSE NoOrder])
  /\ UNCHANGED <<probe, auth, orders, notifVars, role, dbPayments, currentOrder, isLoading, error, alert, confirmFor, acts>>

AfterInsertOrder(c, t) ==
  /\ At(c, t, "createOrder", "inserted")
  /\ IF t.ok
          THEN /\ UNCHANGED error
               /\ alert' = [alert EXCEPT ![c] = IF t.via = "form" THEN "create_ok" ELSE @]
          ELSE /\ error' = [error EXCEPT ![c] = "error"]
               /\ alert' = [alert EXCEPT ![c] = IF t.via = "form" THEN "create_error" ELSE @]
  /\ orders' = [orders EXCEPT ![c] = IF t.ok THEN <<t.row>> \o @ ELSE @]
  /\ isLoading' = [isLoading EXCEPT ![c] = FALSE]
  /\ Finish(c, t)
  /\ UNCHANGED <<probe, auth, notifVars, role, dbOrders, dbPayments, currentOrder, confirmFor, acts>>

(* --------------------------- updateOrderStatus ------------------------ *)
(* store updateOrderStatus(id, status) up to its update: updateData is the *)
(* status plus the stamp of completed_at or delivered_at                   *)
updateOrderStatus(c, id, status, via) ==
  /\ CanStart(c)
  /\ isLoading' = [isLoading EXCEPT ![c] = TRUE]
  /\ error' = [error EXCEPT ![c] = ""]
  /\ Start(c, [NoTask EXCEPT !.op = "updateOrderStatus", !.pc = "update", !.via = via,
                            !.id = id, !.status = status, !.stamp = acts + 1])
  /\ acts' = acts + 1

(* { ...order, ...updateData } *)
ApplyUpdateData_NoStamp(order, status, stamp) ==
  [order EXCEPT !.status = status]

ApplyUpdateData(order, status, stamp) ==
  [order EXCEPT !.status = status,
                !.completed_at = IF status = "stitched" THEN stamp ELSE @,
                !.delivered_at = IF status = "delivered" THEN stamp ELSE @]

(* state.orders.map(order => order.id === id ? {...order, ...updateData} : order) *)
MapOrders(list, id, status, stamp) ==
  [i \in 1..Len(list) |->
     IF list[i].id = id THEN ApplyUpdateData(list[i], status, stamp) ELSE list[i]]

(* order-details screen: button shown when isMuteer() and the displayed    *)
(* order is pending                                                        *)
HandleMarkAsStitched(c) ==
  /\ currentOrder[c].id # 0
  /\ isMuteer(c)
  /\ currentOrder[c].status = "pending"
  /\ updateOrderStatus(c, currentOrder[c].id, "stitched", "details")
  /\ UNCHANGED <<probe, auth, orders, notifVars, role, dbOrders, dbPayments, currentOrder, alert, confirmFor>>

(* search tab (karigar): button shown when not loading and the found order *)
(* is pending                                                              *)
SearchMarkAsStitched(c) ==
  /\ currentOrder[c].id # 0
  /\ isKarigar(c)
  /\ ~isLoading[c]
  /\ currentOrder[c].status = "pending"
  /\ updateOrderStatus(c, currentOrder[c].id, "stitched", "search")
  /\ UNCHANGED <<probe, auth, orders, notifVars, role, dbOrders, dbPayments, currentOrder, alert, confirmFor>>

(* order-details screen: button shown when isMuteer() and the displayed    *)
(* order is stitched; with a balance left the warning dialog opens first   *)
HandleMarkAsDelivered(c) ==
  /\ currentOrder[c].id # 0
  /\ isMuteer(c)
  /\ currentOrder[c].status = "stitched"
  /\ confirmFor[c] = 0
  /\ IF currentOrder[c].remaining_amount > 0
       THEN /\ acts < MaxActs
            /\ acts' = acts + 1
            /\ confirmFor' = [confirmFor EXCEPT ![c] = currentOrder[c].id]
            /\ UNCHANGED <<isLoading, error, tasks>>
       ELSE /\ updateOrderStatus(c, currentOrder[c].id, "delivered", "details")
            /\ UNCHANGED confirmFor
  /\ UNCHANGED <<probe, auth, orders, notifVars, role, dbOrders, dbPayments, currentOrder, alert>>

(* the dialog's continue button: updateOrderStatus(currentOrder.id,        *)
(* 'delivered') with the order captured when the dialog opened             *)
ConfirmDelivered(c) ==
  /\ confirmFor[c] # 0
  /\ updateOrderStatus(c, confirmFor[c], "delivered", "confirm")
  /\ confirmFor' = [confirmFor EXCEPT ![c] = 0]
  /\ UNCHANGED <<probe, auth, orders, notifVars, role, dbOrders, dbPayments, currentOrder, alert>>

(* the dialog's cancel button *)
CancelDelivered(c) ==
  /\ confirmFor[c] # 0
  /\ confirmFor' = [confirmFor EXCEPT ![c] = 0]
  /\ UNCHANGED <<probe, auth, orders, notifVars, role, dbOrders, dbPayments, currentOrder, isLoading, error, tasks, alert, acts>>

(* UPDATE orders SET updateData WHERE id = ... *)
DbUpdateStatus(c, t, fail) ==
  /\ At(c, t, "updateOrderStatus", "update")
  /\ LET newRow == IF t.id \in OrderIds
                     THEN ApplyUpdateData(dbOrders[t.id], t.status, t.stamp)
                     ELSE NoOrder
         res == IF fail THEN [ok |-> FALSE, rows |-> dbOrders]
                ELSE UpdateOrder(c, t.id, newRow)
     IN /\ dbOrders' = res.rows
        /\ Advance(c, t, [t EXCEPT !.pc = "updated", !.ok = res.ok,
                                   !.prior = IF t.id \in OrderIds
                                               THEN dbOrders[t.id].status ELSE "none",
                                   !.err = IF fail THEN "network"
                                           ELSE UpdateOrderError(c, t.id, newRow)])
  /\ UNCHANGED <<probe, auth, orders, notifVars, role, dbPayments, currentOrder, isLoading, error, alert, confirmFor, acts>>

(* variant that applies the local update before looking at the error *)
AfterUpdateStatus_Optimistic(c, t) ==
  /\ At(c, t, "updateOrderStatus", "updated")
  /\ currentOrder' = [currentOrder EXCEPT ![c] =
                        IF @.id = t.id THEN ApplyUpdateData(@, t.status, t.stamp) ELSE @]
  /\ error' = [error EXCEPT ![c] = IF t.ok THEN @ ELSE "error"]
  /\ orders' = [orders EXCEPT ![c] = MapOrders(@, t.id, t.status, t.stamp)]
  /\ isLoading' = [isLoading EXCEPT ![c] = FALSE]
  /\ IF t.via \in {"details", "search"} /\ t.status = "stitched"
       THEN /\ Advance(c, t, [t EXCEPT !.op = "sendStitchedNotification", !.pc = "profiles"])
            /\ UNCHANGED alert
       ELSE /\ alert' = [alert EXCEPT ![c] = IF t.via \in {"details", "confirm"}
                                                  THEN "delivered_ok" ELSE @]
            /\ Finish(c, t)
  /\ UNCHANGED <<probe, auth, notifVars, role, dbOrders, dbPayments, confirmFor, acts>>

(* rest of updateOrderStatus; the handlers that asked for stitched go on   *)
(* to sendStitchedNotification whatever the outcome, the delivered handler  *)
(* shows its alert                                                          *)
AfterUpdateStatus(c, t) ==
  /\ At(c, t, "updateOrderStatus", "updated")
  /\ IF t.ok
          THEN /\ currentOrder' =
                    [currentOrder EXCEPT ![c] =
                       IF @.id = t.id THEN ApplyUpdateData(@, t.status, t.stamp) ELSE @]
               /\ UNCHANGED error
          ELSE /\ error' = [error EXCEPT ![c] = "error"]
               /\ UNCHANGED currentOrder
  /\ orders' = [orders EXCEPT ![c] =
                  IF t.ok THEN MapOrders(@, t.id, t.status, t.stamp) ELSE @]
  /\ isLoading' = [isLoading EXCEPT ![c] = FALSE]
  /\ IF t.via \in {"details", "search"} /\ t.status = "stitched"
       THEN /\ Advance(c, t, [t EXCEPT !.op = "sendStitchedNotification", !.pc = "profiles"])
            /\ UNCHANGED alert
       ELSE /\ alert' = [alert EXCEPT ![c] = IF t.via \in {"details", "confirm"}
                                                  THEN "delivered_ok" ELSE @]
            /\ Finish(c, t)
  /\ UNCHANGED <<probe, auth, notifVars, role, dbOrders, dbPayments, confirmFor, acts>>

(* ----------------------- sendStitchedNotification --------------------- *)
(* policy "Users can view their own notifications": USING                   *)
CanViewNotification(c, row) == row.user_id = c

(* policy "Users can update their own notifications": USING                 *)
CanUpdateNotification(c, row) == row.user_id = c

(* SELECT * FROM profiles WHERE role = 'muteer'; no data on an error *)
DbSelectProfiles(c, t, fail) ==
  /\ At(c, t, "sendStitchedNotification", "profiles")
  /\ Advance(c, t, [t EXCEPT !.pc = "profiled",
                             !.profiles = IF fail THEN {}
                                          ELSE {u \in Clients : CanReadProfile(c, u)
                                                                  /\ role[u] = "muteer"}])
  /\ UNCHANGED <<probe, auth, orders, notifVars, role, dbOrders, dbPayments, currentOrder, isLoading,
                 error, alert, confirmFor, acts>>

(* what the handler does once sendStitchedNotification has returned: the    *)
(* order-details screen shows its success alert, the search tab nothing     *)
StitchedHandlerDone(c, t) ==
  /\ alert' = [alert EXCEPT ![c] = IF t.via = "details" THEN "stitched_ok" ELSE @]
  /\ Finish(c, t)

(* the loop of sendStitchedNotification: sendNotification for the next      *)
(* profile, or return when there is none (left)                             *)
NextProfile(c, t) ==
  IF t.profiles = {}
    THEN StitchedHandlerDone(c, t)
    ELSE LET u == CHOOSE x \in t.profiles : TRUE
         IN /\ Advance(c, t, [t EXCEPT !.pc = "notify", !.user = u,
                                        !.profiles = t.profiles \ {u}])
            /\ UNCHANGED alert

AfterSelectProfiles(c, t) ==
  /\ At(c, t, "sendStitchedNotification", "profiled")
  /\ NextProfile(c, t)
  /\ UNCHANGED <<probe, auth, orders, notifVars, role, dbOrders, dbPayments, currentOrder, isLoading,
                 error, confirmFor, acts>>

(* INSERT INTO notifications (user_id, ..., read) VALUES (..., false)       *)
(* RETURNING *: the insert policy admits every row, the returned row must   *)
(* be visible to the user who inserts                                       *)
InsertNotification(c, u, fail) ==
  LET new == [user_id |-> u, read |-> FALSE]
      ok == ~fail /\ CanViewNotification(c, new)
  IN [ok |-> ok, rows |-> IF ok THEN Append(dbNotifications, new) ELSE dbNotifications]

DbInsertNotification(c, t, fail) ==
  /\ At(c, t, "sendStitchedNotification", "notify") \/ At(c, t, "sendNotification", "notify")
  /\ dbNotifications' = InsertNotification(c, t.user, fail).rows
  /\ Advance(c, t, [t EXCEPT !.pc = "notified"])
  /\ UNCHANGED <<probe, auth, orders, notifications, unreadCount, role, dbOrders, dbPayments, currentOrder,
                 isLoading, error, alert, confirmFor, acts>>

(* sendNotification returned: to its direct caller, or to the loop, which  *)
(* does not look at the result and goes on with the next profile            *)
AfterInsertNotification(c, t) ==
  /\ At(c, t, "sendStitchedNotification", "notified") \/ At(c, t, "sendNotification", "notified")
  /\ IF t.op = "sendNotification"
       THEN Finish(c, t) /\ UNCHANGED alert
       ELSE NextProfile(c, t)
  /\ UNCHANGED <<probe, auth, orders, notifVars, role, dbOrders, dbPayments, currentOrder, isLoading,
                 error, confirmFor, acts>>

(* --------------------------- notification store ------------------------ *)
(* (the notification store's own isLoading and error are left out)         *)
RoomForNotification ==
  Len(dbNotifications) + CountAt(Clients, "sendNotification", "notify") < MaxNotifications

(* sendNotification(userId, title, message) called directly *)
CallSendNotification(c, u) ==
  /\ CanStart(c)
  /\ RoomForNotification
  /\ Start(c, [NoTask EXCEPT !.op = "sendNotification", !.pc = "notify", !.user = u])
  /\ acts' = acts + 1
  /\ UNCHANGED <<probe, auth, orders, notifVars, role, dbOrders, dbPayments, currentOrder, isLoading,
                 error, alert, confirmFor>>

RECURSIVE VisibleNotifications(_, _)
(* SELECT * FROM notifications WHERE user_id = user.id ORDER BY created_at  *)
(* DESC, over the first n rows: newest first, as (id, read)                 *)
VisibleNotifications(c, n) ==
  IF n = 0 THEN <<>>
  ELSE (IF dbNotifications[n].user_id = c /\ CanViewNotification(c, dbNotifications[n])
          THEN <<[id |-> n, read |-> dbNotifications[n].read]>> ELSE <<>>)
       \o VisibleNotifications(c, n - 1)

RECURSIVE Unread(_)
(* notifications.filter(n => !n.read).length *)
Unread(list) ==
  IF list = <<>> THEN 0 ELSE (IF Head(list).read THEN 0 ELSE 1) + Unread(Tail(list))

(* .update({ read: true }) *)
MarkRead(row) == [row EXCEPT !.read = TRUE]

(* notifications screen: mount and pull-to-refresh *)
FetchNotifications(c) ==
  /\ CanStart(c)
  /\ Start(c, [NoTask EXCEPT !.op = "fetchNotifications", !.pc = "select"])
  /\ acts' = acts + 1
  /\ UNCHANGED <<probe, auth, orders, notifVars, role, dbOrders, dbPayments, currentOrder, isLoading,
                 error, alert, confirmFor>>

DbSelectNotifications(c, t, fail) ==
  /\ At(c, t, "fetchNotifications", "select")
  /\ Advance(c, t, [t EXCEPT !.pc = "selected", !.ok = ~fail,
                             !.list = IF fail THEN <<>>
                                      ELSE VisibleNotifications(c, Len(dbNotifications))])
  /\ UNCHANGED <<probe, auth, orders, notifVars, role, dbOrders, dbPayments, currentOrder, isLoading,
                 error, alert, confirmFor, acts>>

AfterSelectNotifications(c, t) ==
  /\ At(c, t, "fetchNotifications", "selected")
  /\ IF t.ok
       THEN /\ notifications' = [notifications EXCEPT ![c] = t.list]
            /\ unreadCount' = [unreadCount EXCEPT ![c] = Unread(t.list)]
       ELSE UNCHANGED <<notifications, unreadCount>>
  /\ Finish(c, t)
  /\ UNCHANGED <<probe, auth, orders, dbNotifications, role, dbOrders, dbPayments, currentOrder, isLoading,
                 error, alert, confirmFor, acts>>

(* notifications screen: the mark-as-read button of an unread item *)
MarkAsRead(c, id) ==
  /\ CanStart(c)
  /\ \E i \in 1..Len(notifications[c]) :
       notifications[c][i].id = id /\ ~notifications[c][i].read
  /\ Start(c, [NoTask EXCEPT !.op = "markAsRead", !.pc = "update", !.id = id])
  /\ acts' = acts + 1
  /\ UNCHANGED <<probe, auth, orders, notifVars, role, dbOrders, dbPayments, currentOrder, isLoading,
                 error, alert, confirmFor>>

(* UPDATE notifications SET read = true WHERE id = ... *)
DbMarkAsRead(c, t, fail) ==
  /\ At(c, t, "markAsRead", "update")
  /\ dbNotifications' =
       [n \in 1..Len(dbNotifications) |->
          IF ~fail /\ n = t.id /\ CanUpdateNotification(c, dbNotifications[n])
            THEN MarkRead(dbNotifications[n]) ELSE dbNotifications[n]]
  /\ Advance(c, t, [t EXCEPT !.pc = "updated", !.ok = ~fail])
  /\ UNCHANGED <<probe, auth, orders, notifications, unreadCount, role, dbOrders, dbPayments, currentOrder,
                 isLoading, error, alert, confirmFor, acts>>

AfterMarkAsRead(c, t) ==
  /\ At(c, t, "markAsRead", "updated")
  /\ IF t.ok
       THEN /\ notifications' =
                 [notifications EXCEPT ![c] =
                    [i \in 1..Len(@) |-> IF @[i].id = t.id THEN MarkRead(@[i]) ELSE @[i]]]
            /\ unreadCount' = [unreadCount EXCEPT ![c] = @ - 1]
       ELSE UNCHANGED <<notifications, unreadCount>>
  /\ Finish(c, t)
  /\ UNCHANGED <<probe, auth, orders, dbNotifications, role, dbOrders, dbPayments, currentOrder, isLoading,
                 error, alert, confirmFor, acts>>

(* notifications screen: mark all as read, shown when the list is not    *)
(* empty                                                                    *)
MarkAllAsRead(c) ==
  /\ CanStart(c)
  /\ Len(notifications[c]) > 0
  /\ Start(c, [NoTask EXCEPT !.op = "markAllAsRead", !.pc = "update"])
  /\ acts' = acts + 1
  /\ UNCHANGED <<probe, auth, orders, notifVars, role, dbOrders, dbPayments, currentOrder, isLoading,
                 error, alert, confirmFor>>

(* UPDATE notifications SET read = true WHERE user_id = ... AND read = false *)
DbMarkAllAsRead(c, t, fail) ==
  /\ At(c, t, "markAllAsRead", "update")
  /\ dbNotifications' =
       [n \in 1..Len(dbNotifications) |->
          IF /\ ~fail
             /\ dbNotifications[n].user_id = c
             /\ ~dbNotifications[n].read
             /\ CanUpdateNotification(c, dbNotifications[n])
            THEN MarkRead(dbNotifications[n]) ELSE dbNotifications[n]]
  /\ Advance(c, t, [t EXCEPT !.pc = "updated", !.ok = ~fail])
  /\ UNCHANGED <<probe, auth, orders, notifications, unreadCount, role, dbOrders, dbPayments, currentOrder,
                 isLoading, error, alert, confirmFor, acts>>

AfterMarkAllAsRead(c, t) ==
  /\ At(c, t, "markAllAsRead", "updated")
  /\ IF t.ok
       THEN /\ notifications' =
                 [notifications EXCEPT ![c] = [i \in 1..Len(@) |-> MarkRead(@[i])]]
            /\ unreadCount' = [unreadCount EXCEPT ![c] = 0]
       ELSE UNCHANGED <<notifications, unreadCount>>
  /\ Finish(c, t)
  /\ UNCHANGED <<probe, auth, orders, dbNotifications, role, dbOrders, dbPayments, currentOrder, isLoading,
                 error, alert, confirmFor, acts>>

(* ------------------------------- addPayment --------------------------- *)
(* store addPayment(payment) up to its insert *)
addPayment(c, order_id, amount, via) ==
  /\ CanStart(c)
  /\ RoomForPayment
  /\ isLoading' = [isLoading EXCEPT ![c] = TRUE]
  /\ error' = [error EXCEPT ![c] = ""]
  /\ Start(c, [NoTask EXCEPT !.op = "addPayment", !.pc = "insert", !.via = via,
                            !.id = order_id, !.amount = amount])
  /\ acts' = acts + 1

(* order-details screen: the payment form is shown when isMuteer(), the    *)
(* displayed order has a balance left and is not delivered; its button is  *)
(* disabled while the store is loading                                     *)
HandleAddPayment(c, typed) ==
  /\ currentOrder[c].id # 0
  /\ isMuteer(c)
  /\ currentOrder[c].remaining_amount > 0
  /\ currentOrder[c].status # "delivered"
  /\ ~isLoading[c]
  /\ LET paymentAmount == typed.text
         errorMsg == validatePaymentAmount(paymentAmount, currentOrder[c].remaining_amount)
     IN IF errorMsg # "ok"
          THEN /\ acts < MaxActs
               /\ acts' = acts + 1
               /\ alert' = [alert EXCEPT ![c] = errorMsg]
               /\ UNCHANGED <<isLoading, error, tasks>>
          ELSE /\ addPayment(c, currentOrder[c].id, ParseFloat(paymentAmount).val, "details")
               /\ UNCHANGED alert
  /\ UNCHANGED <<probe, auth, orders, notifVars, role, dbOrders, dbPayments, currentOrder, confirmFor>>

(* variant of the insert that replaces the last payment of the same order *)
InsertPayment_Upsert(rows, rec) ==
  IF Len(rows) > 0 /\ rows[Len(rows)].order_id = rec.order_id
    THEN [rows EXCEPT ![Len(rows)] = rec]
    ELSE Append(rows, rec)

(* supabase.from('payments').insert({...}): a new row with a fresh id *)
InsertPayment(rows, rec) == Append(rows, rec)

(* INSERT INTO payments ... .select().single(): foreign key on orders,     *)
(* CHECK (amount > 0), policy "Muteer can insert payments"                 *)
DbInsertPayment(c, t, fail) ==
  /\ At(c, t, "addPayment", "insert")
  /\ LET ok == /\ ~fail
               /\ MuteerCanInsertPayments(c)
               /\ t.id \in OrderIds
               /\ PaymentAmountCheck(t.amount)
     IN /\ dbPayments' = IF ok THEN InsertPayment(dbPayments, [order_id |-> t.id, amount |-> t.amount])
                         ELSE dbPayments
        /\ Advance(c, t, [t EXCEPT !.pc = "inserted", !.ok = ok,
                                   !.payment = IF ok THEN Len(dbPayments) + 1 ELSE 0])
  /\ UNCHANGED <<probe, auth, orders, notifVars, role, dbOrders, currentOrder, isLoading, error, alert, confirmFor, acts>>

(* what handleAddPayment shows when addPayment returns *)
PaymentAlert(c, t, err) ==
  IF t.via = "details" THEN (IF err THEN "payment_error" ELSE "payment_ok") ELSE alert[c]

(* addPayment between its two awaits: on an insert error the catch block;  *)
(* otherwise isLoading is cleared and the new balance is computed from the *)
(* store's currentOrder as it is now                                        *)
AfterInsertPayment(c, t) ==
  /\ At(c, t, "addPayment", "inserted")
  /\ LET cur == currentOrder[c]
     IN /\ isLoading' = [isLoading EXCEPT ![c] = FALSE]
        /\ IF ~t.ok
             THEN /\ error' = [error EXCEPT ![c] = "error"]
                  /\ alert' = [alert EXCEPT ![c] = PaymentAlert(c, t, TRUE)]
                  /\ Finish(c, t)
           ELSE IF cur.id # 0
             THEN /\ Advance(c, t, [t EXCEPT !.pc = "update", !.target = cur.id,
                                             !.newRemaining = cur.remaining_amount - t.amount])
                  /\ UNCHANGED <<error, alert>>
           ELSE /\ alert' = [alert EXCEPT ![c] = PaymentAlert(c, t, FALSE)]
                /\ Finish(c, t)
                /\ UNCHANGED error
  /\ UNCHANGED <<probe, auth, orders, notifVars, role, dbOrders, dbPayments, currentOrder, confirmFor, acts>>

(* UPDATE orders SET remaining_amount = newRemaining WHERE id = ...        *)
DbUpdateRemaining(c, t, fail) ==
  /\ At(c, t, "addPayment", "update")
  /\ LET newRow == IF t.target \in OrderIds
                     THEN [dbOrders[t.target] EXCEPT !.remaining_amount = t.newRemaining]
                     ELSE NoOrder
         res == IF fail THEN [ok |-> FALSE, rows |-> dbOrders]
                ELSE UpdateOrder(c, t.target, newRow)
     IN /\ dbOrders' = res.rows
        /\ Advance(c, t, [t EXCEPT !.pc = "updated", !.ok = res.ok])
  /\ UNCHANGED <<probe, auth, orders, notifVars, role, dbPayments, currentOrder, isLoading, error, alert, confirmFor, acts>>

(* end of addPayment: the update's response is not inspected *)
AfterUpdateRemaining(c, t) ==
  /\ At(c, t, "addPayment", "updated")
  /\ /\ currentOrder' = [currentOrder EXCEPT ![c] =
                              IF @.id # 0 THEN [@ EXCEPT !.remaining_amount = t.newRemaining] ELSE @]
        /\ alert' = [alert EXCEPT ![c] = PaymentAlert(c, t, FALSE)]
        /\ Finish(c, t)
  /\ UNCHANGED <<probe, auth, orders, notifVars, role, dbOrders, dbPayments, isLoading, error, confirmFor, acts>>

(* ------------------- the store's operations called directly ----------- *)
(* orderData objects (Partial<Order>) a caller can pass to createOrder:    *)
(* amounts of a valid order, any status, timestamps absent (0) or present  *)
OrderDataInputs ==
  { [NoOrder EXCEPT !.total_amount = 300, !.deposit_amount = d, !.status = st,
                    !.completed_at = ca, !.delivered_at = da] :
      d \in {0, 50}, st \in Statuses, ca \in {0, 7}, da \in {0, 7} }

(* createOrder(orderData) with any orderData, by any signed-in user *)
CallCreateOrder(c, orderData) ==
  /\ CanStart(c)
  /\ RoomForOrder
  /\ createOrder(c, orderData, "call")
  /\ acts' = acts + 1
  /\ UNCHANGED <<probe, auth, orders, notifVars, role, dbOrders, dbPayments, currentOrder, alert, confirmFor>>

(* updateOrderStatus(id, status) with any arguments, by any signed-in user *)
CallUpdateOrderStatus(c, id, status) ==
  /\ id \in OrderIds
  /\ updateOrderStatus(c, id, status, "call")
  /\ UNCHANGED <<probe, auth, orders, notifVars, role, dbOrders, dbPayments, currentOrder, alert, confirmFor>>

(* ----------------------------- specifications ------------------------- *)
Database ==
  \E c \in Clients : \E fail \in BOOLEAN :
    \/ \E t \in InFlight(c) : DbSelectOrder(c, t, fail)
    \/ \E t \in InFlight(c) : DbInsertOrder(c, t, fail)
    \/ \E t \in InFlight(c) : DbUpdateStatus(c, t, fail)
    \/ \E t \in InFlight(c) : DbInsertPayment(c, t, fail)
    \/ \E t \in InFlight(c) : DbUpdateRemaining(c, t, fail)
    \/ \E t \in InFlight(c) : DbSelectProfiles(c, t, fail)
    \/ \E t \in InFlight(c) : DbInsertNotification(c, t, fail)

Continue ==
  \E c \in Clients :
    \/ \E t \in InFlight(c) : AfterSelectOrder(c, t)
    \/ \E t \in InFlight(c) : AfterInsertOrder(c, t)
    \/ \E t \in InFlight(c) : AfterUpdateStatus(c, t)
    \/ \E t \in InFlight(c) : AfterInsertPayment(c, t)
    \/ \E t \in InFlight(c) : AfterUpdateRemaining(c, t)
    \/ \E t \in InFlight(c) : AfterSelectProfiles(c, t)
    \/ \E t \in InFlight(c) : AfterInsertNotification(c, t)

User ==
  \E c \in Clients :
    \/ \E id \in 1..MaxOrders : OpenOrder(c, id)
    \/ \E serial \in 1..MaxOrders : Search(c, serial)
    \/ \E in \in OrderInputs : HandleCreateOrder(c, in)
    \/ HandleMarkAsStitched(c)
    \/ SearchMarkAsStitched(c)
    \/ HandleMarkAsDelivered(c)
    \/ ConfirmDelivered(c)
    \/ CancelDelivered(c)
    \/ \E typed \in PaymentInputs : HandleAddPayment(c, typed)

Next == User \/ Database \/ Continue

Spec == Init /\ [][Next]_vars

(* the same application with a database that is always reachable: a        *)
(* statement fails only when a constraint or a policy rejects it            *)
DatabaseReliable ==
  \E c \in Clients :
    \/ \E t \in InFlight(c) : DbSelectOrder(c, t, FALSE)
    \/ \E t \in InFlight(c) : DbInsertOrder(c, t, FALSE)
    \/ \E t \in InFlight(c) : DbUpdateStatus(c, t, FALSE)
    \/ \E t \in InFlight(c) : DbInsertPayment(c, t, FALSE)
    \/ \E t \in InFlight(c) : DbUpdateRemaining(c, t, FALSE)
    \/ \E t \in InFlight(c) : DbSelectProfiles(c, t, FALSE)
    \/ \E t \in InFlight(c) : DbInsertNotification(c, t, FALSE)

NextReliable == User \/ DatabaseReliable \/ Continue

SpecReliable == Init /\ [][NextReliable]_vars

(* one device in use, on the new-order form and the order-details screen, *)
(* against a database whose statements may fail                             *)
UserOutage ==
  \E c \in {"c1"} :
    \/ \E in \in OrderInputs : HandleCreateOrder(c, in)
    \/ \E id \in 1..MaxOrders : OpenOrder(c, id)
    \/ HandleMarkAsStitched(c)
    \/ HandleMarkAsDelivered(c)
    \/ ConfirmDelivered(c)
    \/ CancelDelivered(c)
    \/ \E typed \in PaymentInputs : HandleAddPayment(c, typed)

NextOutage == UserOutage \/ Database \/ Continue

SpecOutage == Init /\ [][NextOutage]_vars

(* one device recording payments: the new-order form and the payment form *)
(* of the order-details screen, against a database whose statements may     *)
(* fail                                                                      *)
UserPayments ==
  \E c \in {"c1"} :
    \/ \E in \in OrderInputs : acts < MaxScreenActs /\ HandleCreateOrder(c, in)
    \/ \E id \in 1..MaxOrders : acts < MaxScreenActs /\ OpenOrder(c, id)
    \/ \E typed \in PaymentInputs : acts < MaxScreenActs /\ HandleAddPayment(c, typed)

DatabasePayments ==
  \E c \in Clients : \E fail \in BOOLEAN :
    \/ \E t \in InFlight(c) : DbSelectOrder(c, t, fail)
    \/ \E t \in InFlight(c) : DbInsertOrder(c, t, fail)
    \/ \E t \in InFlight(c) : DbInsertPayment(c, t, fail)
    \/ \E t \in InFlight(c) : DbUpdateRemaining(c, t, fail)

ContinuePayments ==
  \E c \in Clients :
    \/ \E t \in InFlight(c) : AfterSelectOrder(c, t)
    \/ \E t \in InFlight(c) : AfterInsertOrder(c, t)
    \/ \E t \in InFlight(c) : AfterInsertPayment(c, t)
    \/ \E t \in InFlight(c) : AfterUpdateRemaining(c, t)

NextPayments == UserPayments \/ DatabasePayments \/ ContinuePayments

SpecPayments == Init /\ [][NextPayments]_vars

(* the notification store: notifications are sent directly and read on    *)
(* the notifications screen                                                 *)
UserNotifications ==
  \E c \in Clients :
    \/ \E u \in Clients : acts < MaxScreenActs /\ CallSendNotification(c, u)
    \/ acts < MaxScreenActs /\ FetchNotifications(c)
    \/ \E id \in 1..MaxNotifications : acts < MaxScreenActs /\ MarkAsRead(c, id)
    \/ acts < MaxScreenActs /\ MarkAllAsRead(c)

DatabaseNotifications ==
  \E c \in Clients : \E fail \in BOOLEAN :
    \/ \E t \in InFlight(c) : DbInsertNotification(c, t, fail)
    \/ \E t \in InFlight(c) : DbSelectNotifications(c, t, fail)
    \/ \E t \in InFlight(c) : DbMarkAsRead(c, t, fail)
    \/ \E t \in InFlight(c) : DbMarkAllAsRead(c, t, fail)

ContinueNotifications ==
  \E c \in Clients :
    \/ \E t \in InFlight(c) : AfterInsertNotification(c, t)
    \/ \E t \in InFlight(c) : AfterSelectNotifications(c, t)
    \/ \E t \in InFlight(c) : AfterMarkAsRead(c, t)
    \/ \E t \in InFlight(c) : AfterMarkAllAsRead(c, t)

NextNotifications == UserNotifications \/ DatabaseNotifications \/ ContinueNotifications

SpecNotifications == Init /\ [][NextNotifications]_vars

(* a database that already holds two pending orders without payments, as  *)
(* two createOrder calls leave it; one device on the order-details screen   *)
TwoOrders ==
  << [NoOrder EXCEPT !.id = 1, !.total_amount = 300, !.remaining_amount = 300],
     [NoOrder EXCEPT !.id = 2, !.total_amount = 300, !.deposit_amount = 50,
                     !.remaining_amount = 250] >>

InitTwoOrders ==
  /\ role \in [Clients -> Roles]
  /\ dbOrders = TwoOrders
  /\ dbPayments = <<>>
  /\ currentOrder = [c \in Clients |-> NoOrder]
  /\ orders = [c \in Clients |-> <<>>]
  /\ isLoading = [c \in Clients |-> FALSE]
  /\ error = [c \in Clients |-> ""]
  /\ tasks = [c \in Clients |-> EmptyBag]
  /\ alert = [c \in Clients |-> "none"]
  /\ confirmFor = [c \in Clients |-> 0]
  /\ acts = 0
  /\ dbNotifications = <<>>
  /\ notifications = [c \in Clients |-> <<>>]
  /\ unreadCount = [c \in Clients |-> 0]
  /\ auth = [c \in Clients |-> NoAuth]
  /\ probe = NoProbe

UserTwoOrders ==
  \E c \in {"c1"} :
    \/ \E id \in 1..Len(TwoOrders) : acts < MaxScreenActs /\ OpenOrder(c, id)
    \/ \E typed \in PaymentInputs : acts < MaxScreenActs /\ HandleAddPayment(c, typed)

DatabaseTwoOrders ==
  \E c \in Clients : \E fail \in BOOLEAN :
    \/ \E t \in InFlight(c) : DbSelectOrder(c, t, fail)
    \/ \E t \in InFlight(c) : DbInsertPayment(c, t, fail)
    \/ \E t \in InFlight(c) : DbUpdateRemaining(c, t, fail)

ContinueTwoOrders ==
  \E c \in Clients :
    \/ \E t \in InFlight(c) : AfterSelectOrder(c, t)
    \/ \E t \in InFlight(c) : AfterInsertPayment(c, t)
    \/ \E t \in InFlight(c) : AfterUpdateRemaining(c, t)

NextTwoOrders == UserTwoOrders \/ DatabaseTwoOrders \/ ContinueTwoOrders

SpecTwoOrders == InitTwoOrders /\ [][NextTwoOrders]_vars

(* the orders list: orders are created through the form and the list is   *)
(* fetched by the orders screen and the dashboard                           *)
UserOrdersList ==
  \E c \in Clients :
    \/ \E in \in OrderInputs : acts < MaxScreenActs /\ HandleCreateOrder(c, in)
    \/ acts < MaxScreenActs /\ FetchOrders(c)

DatabaseOrdersList ==
  \E c \in Clients : \E fail \in BOOLEAN :
    \/ \E t \in InFlight(c) : DbInsertOrder(c, t, fail)
    \/ \E t \in InFlight(c) : DbSelectOrders(c, t, fail)

ContinueOrdersList ==
  \E c \in Clients :
    \/ \E t \in InFlight(c) : AfterInsertOrder(c, t)
    \/ \E t \in InFlight(c) : AfterSelectOrders(c, t)

NextOrdersList == UserOrdersList \/ DatabaseOrdersList \/ ContinueOrdersList

SpecOrdersList == Init /\ [][NextOrdersList]_vars

(* the auth store: sign in, session refresh on start, sign out *)
UserAuth ==
  \E c \in Clients :
    \/ \E good \in BOOLEAN : acts < MaxScreenActs /\ SignIn(c, good)
    \/ acts < MaxScreenActs /\ RefreshSession(c)
    \/ acts < MaxScreenActs /\ SignOut(c)

DatabaseAuth ==
  \E c \in Clients : \E fail \in BOOLEAN :
    \/ \E t \in InFlight(c) : DbSignInWithPassword(c, t, fail)
    \/ \E t \in InFlight(c) : GetSession(c, t)
    \/ \E t \in InFlight(c) : DbSelectProfile(c, t, fail)
    \/ \E t \in InFlight(c) : DbSignOut(c, t)

ContinueAuth ==
  \E c \in Clients :
    \/ \E t \in InFlight(c) : AfterSignInWithPassword(c, t)
    \/ \E t \in InFlight(c) : AfterGetSession(c, t)
    \/ \E t \in InFlight(c) : AfterSelectProfile(c, t)
    \/ \E t \in InFlight(c) : AfterSignOut(c, t)

NextAuth == UserAuth \/ DatabaseAuth \/ ContinueAuth

SpecAuth == Init /\ [][NextAuth]_vars

(* createOrder called directly with any orderData *)
UserCreate ==
  \E c \in Clients : \E orderData \in OrderDataInputs :
    acts < MaxScreenActs /\ CallCreateOrder(c, orderData)

DatabaseCreate ==
  \E c \in Clients : \E fail \in BOOLEAN : \E t \in InFlight(c) : DbInsertOrder(c, t, fail)

ContinueCreate ==
  \E c \in Clients : \E t \in InFlight(c) : AfterInsertOrder(c, t)

NextCreate == UserCreate \/ DatabaseCreate \/ ContinueCreate

SpecCreate == Init /\ [][NextCreate]_vars

(* the store's lifecycle operations called directly: orders are created    *)
(* through the form, updateOrderStatus is called with any arguments         *)
UserStatus ==
  \E c \in Clients :
    \/ \E in \in OrderInputs : acts < MaxCalls /\ HandleCreateOrder(c, in)
    \/ \E id \in 1..MaxOrders : \E status \in Statuses :
         acts < MaxCalls /\ CallUpdateOrderStatus(c, id, status)

DatabaseStatus ==
  \E c \in Clients : \E fail \in BOOLEAN :
    \/ \E t \in InFlight(c) : DbInsertOrder(c, t, fail)
    \/ \E t \in InFlight(c) : DbUpdateStatus(c, t, fail)

ContinueStatus ==
  \E c \in Clients :
    \/ \E t \in InFlight(c) : AfterInsertOrder(c, t)
    \/ \E t \in InFlight(c) : AfterUpdateStatus(c, t)

NextStatus == UserStatus \/ DatabaseStatus \/ ContinueStatus

SpecStatus == Init /\ [][NextStatus]_vars

(* the payment validation applied once to every input *)
InitPaymentValidation ==
  /\ AppInit
  /\ probe \in {[fn |-> "validatePaymentAmount", input |-> in, remaining |-> r, result |-> "unset"] :
                  in \in PaymentInputs, r \in RemainingInputs}

ApplyValidatePaymentAmount ==
  /\ probe.fn = "validatePaymentAmount"
  /\ probe.result = "unset"
  /\ probe' = [probe EXCEPT !.result = validatePaymentAmount(probe.input.text, probe.remaining)]
  /\ UNCHANGED appVars

SpecPaymentValidation == InitPaymentValidation /\ [][ApplyValidatePaymentAmount]_vars

(* ------------------------- helpers.ts: WhatsApp ------------------------ *)
(* phone numbers as typed: sequences of characters, built from a prefix, a *)
(* lead and a body, with separators in some of them                         *)
PhonePrefixes == { <<>>, <<"+">>, <<"9", "6", "6">>, <<"0", "0">> }

PhoneLeads ==
  { <<"5">>, <<"0", "5">>, <<"0", "-", "5">>, <<"6">>, <<"9", "6", "6", "5">> }

PhoneBodies ==
  { <<"1", "2", "3", "4", "5", "6", "7", "8">>,
    <<"1", "2", "3", "4", " ", "5", "6", "7", "8">>,
    <<"6", "6", "0", "0", "0", "0", "0", "0">>,
    <<"1", "2", "3", "4", "5", "6", "7">>,
    <<"1", "2", "3", "4", "5", "6", "7", "8", "9">> }

PhoneInputs ==
  { pre \o lead \o body : pre \in PhonePrefixes, lead \in PhoneLeads, body \in PhoneBodies }

IsDigit(ch) == ch \in {"0", "1", "2", "3", "4", "5", "6", "7", "8", "9"}

(* phoneNumber.replace(/\D/g, '') *)
DigitsOnly(phoneNumber) == SelectSeq(phoneNumber, IsDigit)

(* digitsOnly.startsWith(prefix) *)
StartsWith(text, prefix) ==
  Len(text) >= Len(prefix) /\ SubSeq(text, 1, Len(prefix)) = prefix

formatPhoneForWhatsApp(phoneNumber) ==
  LET digitsOnly == DigitsOnly(phoneNumber)
  IN IF StartsWith(digitsOnly, <<"0">>)
       THEN <<"9", "6", "6">> \o SubSeq(digitsOnly, 2, Len(digitsOnly))
     ELSE IF ~StartsWith(digitsOnly, <<"9", "6", "6">>)
       THEN <<"9", "6", "6">> \o digitsOnly
     ELSE digitsOnly

(* variant of the test without the count of digits: 05 or 5 first *)
isValidSaudiPhone_AnyLength(phoneNumber) ==
  LET digitsOnly == DigitsOnly(phoneNumber)
  IN StartsWith(digitsOnly, <<"0", "5">>) \/ StartsWith(digitsOnly, <<"5">>)

(* /^(05)[0-9]{8}$|^(5)[0-9]{8}$/.test(digitsOnly) *)
isValidSaudiPhone(phoneNumber) ==
  LET digitsOnly == DigitsOnly(phoneNumber)
  IN \/ StartsWith(digitsOnly, <<"0", "5">>) /\ Len(digitsOnly) = 2 + 8
     \/ StartsWith(digitsOnly, <<"5">>) /\ Len(digitsOnly) = 1 + 8

(* the phone part of the link sendWhatsAppMessage opens, <<>> when it      *)
(* returns without opening one                                              *)
sendWhatsAppMessage(phoneNumber) ==
  IF ~isValidSaudiPhone(phoneNumber) THEN <<>> ELSE formatPhoneForWhatsApp(phoneNumber)

(* sendWhatsAppMessage applied once to every phone number *)
InitWhatsApp ==
  /\ AppInit
  /\ probe \in {[fn |-> "sendWhatsAppMessage", phone |-> ph, result |-> "unset",
                  opened |-> <<>>] : ph \in PhoneInputs}

ApplySendWhatsAppMessage ==
  /\ probe.fn = "sendWhatsAppMessage"
  /\ probe.result = "unset"
  /\ probe' = [probe EXCEPT !.result = "done", !.opened = sendWhatsAppMessage(probe.phone)]
  /\ UNCHANGED appVars

SpecWhatsApp == InitWhatsApp /\ [][ApplySendWhatsAppMessage]_vars

(* the two validations of the new-order form applied once to every input *)
InitOrderValidation ==
  /\ AppInit
  /\ probe \in {[fn |-> f, input |-> [total |-> t, deposit |-> d], remaining |-> 0,
                  result |-> "unset", errors |-> {}] :
                  f \in {"validateForm", "validateOrderFields"},
                  t \in AmountInputs, d \in AmountInputs}

ApplyValidateForm ==
  /\ probe.fn = "validateForm"
  /\ probe.result = "unset"
  /\ probe' = [probe EXCEPT !.result = "done",
                            !.errors = validateFormErrors(probe.input.total.text,
                                                          probe.input.deposit.text)]
  /\ UNCHANGED appVars

ApplyValidateOrderFields ==
  /\ probe.fn = "validateOrderFields"
  /\ probe.result = "unset"
  /\ probe' = [probe EXCEPT !.result = "done",
                            !.errors = validateOrderFields(probe.input.total.text,
                                                           probe.input.deposit.text)]
  /\ UNCHANGED appVars

NextOrderValidation == ApplyValidateForm \/ ApplyValidateOrderFields

SpecOrderValidation == InitOrderValidation /\ [][NextOrderValidation]_vars

(* ============================== claims ================================ *)
RECURSIVE SumPayments(_, _)
(* sum of the amounts of the first n payment rows that belong to order o *)
SumPayments(o, n) ==
  IF n = 0 THEN 0
  ELSE (IF dbPayments[n].order_id = o THEN dbPayments[n].amount ELSE 0) + SumPayments(o, n - 1)

(* no createOrder or addPayment call is in flight on any device *)
Quiescent ==
  \A c \in Clients : \A t \in InFlight(c) : t.op \notin {"createOrder", "addPayment"}

(* the device whose task bag changes in a step is the one that acted *)
Acted(c) == tasks'[c] # tasks[c]

(* task t of device c is answered or finished in this step *)
Left(c, t) == CopiesIn(t, tasks'[c]) < CopiesIn(t, tasks[c])

Rank(status) == CASE status = "pending" -> 0 [] status = "stitched" -> 1 [] status = "delivered" -> 2

(* C1: once every createOrder and addPayment call has returned, each      *)
(* persisted order has remaining_amount = total_amount - deposit_amount - *)
(* the sum of its persisted payments.                                      *)
C1_LedgerEquation ==
  Quiescent =>
    \A o \in OrderIds :
      dbOrders[o].remaining_amount =
        dbOrders[o].total_amount - dbOrders[o].deposit_amount - SumPayments(o, Len(dbPayments))

(* C2: the persisted remaining_amount of every order is >= 0 in every     *)
(* reachable state.                                                        *)
C2_RemainingNonNegative ==
  \A o \in OrderIds : dbOrders[o].remaining_amount >= 0

(* a payment of 250 submitted from the order-details screen of device c   *)
(* for order o is recorded and its call has not yet written the balance   *)
Recorded250(c, o) ==
  \E t \in InFlight(c) :
    /\ t.op = "addPayment" /\ t.via = "details"
    /\ t.id = o /\ t.amount = 250
    /\ t.pc \in {"inserted", "update"} /\ t.ok

(* C3: when two devices concurrently submit a payment of 250 against the  *)
(* same order with remaining 300, the payments of both are never recorded *)
(* (exactly one succeeds, the other fails).                                *)
C3_OnlyOneOfTwoRecorded ==
  \A o \in OrderIds : \A c1, c2 \in Clients :
    ~(/\ c1 # c2
      /\ dbOrders[o].remaining_amount = 300
      /\ Recorded250(c1, o)
      /\ Recorded250(c2, o))

(* C4: when the update of remaining_amount inside addPayment fails, the   *)
(* call returns an error to its caller and its payment record is not      *)
(* persisted (the two writes are applied together or not at all).         *)
C4_PaymentAtomic ==
  [][\A c \in Clients : \A t \in InFlight(c) :
       (t.op = "addPayment" /\ t.pc = "updated" /\ t.via = "details" /\ ~t.ok /\ Left(c, t))
         => /\ alert'[c] = "payment_error"
            /\ t.payment \notin 1..Len(dbPayments')]_vars

(* C5: the status of a persisted order never moves backward: a stitched   *)
(* order never becomes pending, a delivered order never changes status.   *)
C5_StatusNeverBackward ==
  [][\A o \in OrderIds : Rank(dbOrders'[o].status) >= Rank(dbOrders[o].status)]_vars

(* C6: no persisted order goes from pending directly to delivered.        *)
C6_NoPendingToDelivered ==
  [][\A o \in OrderIds :
       ~(dbOrders[o].status = "pending" /\ dbOrders'[o].status = "delivered")]_vars

(* C7: a karigar never causes an order to become delivered: every request *)
(* of a karigar to set status delivered is answered with an error and     *)
(* leaves the orders table unchanged, and no step taken for a karigar     *)
(* makes an order delivered.                                               *)
C7_KarigarNeverDelivers ==
  [][\A c \in Clients : isKarigar(c) =>
       /\ \A t \in InFlight(c) :
            (t.op = "updateOrderStatus" /\ t.pc = "update" /\ t.status = "delivered" /\ Left(c, t))
              => /\ dbOrders' = dbOrders
                 /\ \E u \in BagToSet(tasks'[c]) :
                      /\ u.op = "updateOrderStatus" /\ u.pc = "updated" /\ ~u.ok
                      /\ u.id = t.id /\ u.status = t.status /\ u.stamp = t.stamp
       /\ Acted(c) =>
            \A o \in OrderIds :
              dbOrders'[o].status = "delivered" => dbOrders[o].status = "delivered"]_vars

(* a karigar's request stitched -> delivered has been answered: rejected, *)
(* the order still stitched                                                *)
C7_Witness ==
  \E c \in Clients : \E t \in InFlight(c) :
    /\ isKarigar(c)
    /\ t.op = "updateOrderStatus" /\ t.pc = "updated" /\ t.status = "delivered"
    /\ ~t.ok
    /\ t.id \in OrderIds /\ dbOrders[t.id].status = "stitched"

(* C8: the only change a karigar makes to a persisted order is the edge   *)
(* pending -> stitched, with the monetary fields unchanged.                *)
C8_KarigarOnlyPendingToStitched ==
  [][\A c \in Clients : (isKarigar(c) /\ Acted(c)) =>
       \A o \in OrderIds :
         dbOrders'[o] # dbOrders[o] =>
           /\ dbOrders[o].status = "pending"
           /\ dbOrders'[o].status = "stitched"
           /\ dbOrders'[o].total_amount = dbOrders[o].total_amount
           /\ dbOrders'[o].deposit_amount = dbOrders[o].deposit_amount
           /\ dbOrders'[o].remaining_amount = dbOrders[o].remaining_amount]_vars

(* C9: a payment row is inserted only for a muteer and only while the     *)
(* owning order's persisted status is not delivered and its persisted     *)
(* remaining_amount is > 0.                                                *)
C9_PaymentOnlyWhileOpen ==
  [][Len(dbPayments') > Len(dbPayments) =>
       LET o == dbPayments'[Len(dbPayments')].order_id
       IN /\ \A c \in Clients : Acted(c) => isMuteer(c)
          /\ dbOrders[o].status # "delivered"
          /\ dbOrders[o].remaining_amount > 0]_vars

(* C10: the payment validation accepts an amount exactly when             *)
(* 0 < amount <= remaining; amount <= 0 is rejected as non-positive and a *)
(* positive amount > remaining as excess.                                  *)
C10_PaymentValidation ==
  (probe.fn = "validatePaymentAmount" /\ probe.result # "unset" /\ probe.input.isNum) =>
    LET amount == probe.input.num
    IN /\ (probe.result = "ok") <=> (0 < amount /\ amount <= probe.remaining)
       /\ amount <= 0 => probe.result = "nonpositive"
       /\ (amount > 0 /\ amount > probe.remaining) => probe.result = "excess"

(* an amount equal to the balance has been validated and accepted *)
C10_Witness ==
  /\ probe.fn = "validatePaymentAmount"
  /\ probe.input.isNum /\ probe.input.num = probe.remaining
  /\ probe.result = "ok"

(* the amounts of an order row are those of a valid creation *)
ValidAmounts(row) ==
  /\ row.total_amount > 0
  /\ 0 <= row.deposit_amount
  /\ row.deposit_amount <= row.total_amount

C12_AllFieldErrors ==
  (probe.fn \in {"validateForm", "validateOrderFields"} /\ probe.result = "done") =>
    LET total == probe.input.total
        deposit == probe.input.deposit
        depositNum == IF deposit.given THEN deposit.num ELSE 0
    IN /\ ("totalAmount" \in probe.errors) <=> (~total.isNum \/ total.num <= 0)
       /\ ("depositAmount" \in probe.errors) <=>
            \/ deposit.given /\ (~deposit.isNum \/ deposit.num < 0)
            \/ (deposit.isNum \/ ~deposit.given) /\ total.isNum /\ depositNum > total.num

(* C13: completed_at and delivered_at of a persisted order are set once:  *)
(* no step changes a timestamp that is set, and completed_at is set         *)
(* whenever the status is stitched or delivered.                            *)
C13_TimestampsSetOnce ==
  [][\A o \in OrderIds :
       /\ dbOrders[o].completed_at # 0 => dbOrders'[o].completed_at = dbOrders[o].completed_at
       /\ dbOrders[o].delivered_at # 0 => dbOrders'[o].delivered_at = dbOrders[o].delivered_at
       /\ dbOrders'[o].status \in {"stitched", "delivered"} => dbOrders'[o].completed_at # 0]_vars

(* the handler of task t on device c returns in this step *)
Returned(c, t) ==
  Left(c, t) /\ BagCardinality(tasks'[c]) < BagCardinality(tasks[c])

(* C14: when a handler that moved an order from pending to stitched has    *)
(* finished, every muteer has a notification row addressed to them.         *)
C14_StitchedNotifiesManagers ==
  [][\A c \in Clients : \A t \in InFlight(c) :
       (t.op = "sendStitchedNotification" /\ t.ok /\ t.prior = "pending" /\ Returned(c, t))
         => \A u \in Clients :
              isMuteer(u) =>
                \E n \in 1..Len(dbNotifications') : dbNotifications'[n].user_id = u]_vars

(* C15: a stitched handler whose updateOrderStatus failed creates no       *)
(* notification and shows no success message.                               *)
C15_NotifyOnlyAfterSuccess ==
  [][\A c \in Clients : \A t \in InFlight(c) :
       (t.op = "sendStitchedNotification" /\ ~t.ok /\ Left(c, t))
         => /\ dbNotifications' = dbNotifications
            /\ (alert'[c] = "stitched_ok" => alert[c] = "stitched_ok")]_vars

(* C16: an order whose persisted remaining_amount is > 0 becomes          *)
(* delivered from the order-details screen only by a request made with the  *)
(* warning dialog's continue button, and cancelling the dialog changes no   *)
(* order and starts no request.                                             *)
C16_DeliveryConfirmed ==
  [][\A c \in Clients :
       /\ \A t \in InFlight(c) :
            (/\ t.op = "updateOrderStatus" /\ t.pc = "update" /\ Left(c, t)
             /\ t.id \in OrderIds
             /\ dbOrders[t.id].status # "delivered"
             /\ dbOrders'[t.id].status = "delivered"
             /\ dbOrders[t.id].remaining_amount > 0)
              => t.via = "confirm"
       /\ (confirmFor[c] # 0 /\ confirmFor'[c] = 0 /\ tasks' = tasks)
            => dbOrders' = dbOrders]_vars

(* the read flag a store list holds for notification id: "read", "unread", *)
(* or "none" when the list does not hold the notification                   *)
StoreRead(list, id) ==
  IF \E i \in 1..Len(list) : list[i].id = id
    THEN IF (CHOOSE r \in {list[i] : i \in 1..Len(list)} : r.id = id).read
           THEN "read" ELSE "unread"
    ELSE "none"

(* the persisted read flag never returns to false, and markAsRead(id)      *)
(* updates no row and no store item other than id                           *)
PersistedReadMonotone ==
  [][/\ \A n \in 1..Len(dbNotifications) :
          dbNotifications[n].read => dbNotifications'[n].read
     /\ \A c \in Clients : \A t \in InFlight(c) :
          (t.op = "markAsRead" /\ Left(c, t)) =>
            /\ \A n \in 1..Len(dbNotifications) :
                 n # t.id => dbNotifications'[n] = dbNotifications[n]
            /\ \A id \in 1..MaxNotifications :
                 id # t.id => StoreRead(notifications'[c], id) = StoreRead(notifications[c], id)]_vars

(* C17: a notification's read flag only changes from false to true: a      *)
(* notification that the table or the store of a client holds as read is    *)
(* not held as unread after any step of markAsRead, markAllAsRead or         *)
(* fetchNotifications, and markAsRead(id) changes the flag of no             *)
(* notification other than id.                                               *)
C17_ReadOnlyFalseToTrue ==
  [][/\ \A n \in 1..Len(dbNotifications) :
          dbNotifications[n].read => dbNotifications'[n].read
     /\ \A c \in Clients : \A id \in 1..MaxNotifications :
          StoreRead(notifications[c], id) = "read" => StoreRead(notifications'[c], id) # "unread"
     /\ \A c \in Clients : \A t \in InFlight(c) :
          (t.op = "markAsRead" /\ Left(c, t)) =>
            /\ \A n \in 1..Len(dbNotifications) :
                 n # t.id => dbNotifications'[n] = dbNotifications[n]
            /\ \A id \in 1..MaxNotifications :
                 id # t.id => StoreRead(notifications'[c], id) = StoreRead(notifications[c], id)]_vars

(* C18: payment records are append-only: every step keeps each persisted  *)
(* payment as it is, the table grows by at most one record per step, and    *)
(* each successful insert of addPayment adds exactly one record, with a new *)
(* identity and the call's order and amount.                                *)
C18_PaymentsAppendOnly ==
  [][/\ Len(dbPayments') \in {Len(dbPayments), Len(dbPayments) + 1}
     /\ \A n \in 1..Len(dbPayments) : dbPayments'[n] = dbPayments[n]
     /\ \A c \in Clients : \A t \in InFlight(c) :
          (t.op = "addPayment" /\ t.pc = "insert" /\ Left(c, t)) =>
            \E u \in BagToSet(tasks'[c]) :
              /\ u.op = "addPayment" /\ u.pc = "inserted"
              /\ IF u.ok
                   THEN /\ Len(dbPayments') = Len(dbPayments) + 1
                        /\ u.payment = Len(dbPayments')
                        /\ dbPayments'[u.payment] = [order_id |-> t.id, amount |-> t.amount]
                   ELSE dbPayments' = dbPayments
     /\ (\A c \in Clients : \A t \in InFlight(c) :
            ~(t.op = "addPayment" /\ t.pc = "insert" /\ Left(c, t))) => dbPayments' = dbPayments]_vars

(* two successful addPayment calls with the same order and amount have     *)
(* left two records                                                         *)
C18_Witness ==
  /\ Len(dbPayments) = 2
  /\ dbPayments[1] = dbPayments[2]
  /\ \A c \in Clients : InFlight(c) = {}

(* a request of createOrder, updateOrderStatus or addPayment was answered  *)
(* and the operation resumes                                                *)
MutationResumes(c, t) ==
  /\ t.op \in {"createOrder", "updateOrderStatus", "addPayment"}
  /\ t.pc \in {"inserted", "updated"}
  /\ Left(c, t)

(* C19: no mutation error is swallowed: when a request of createOrder,     *)
(* updateOrderStatus or addPayment (its insert or its remaining_amount      *)
(* update) has failed, the operation that resumes reports the failure: it   *)
(* takes its catch block, which records the error and, for createOrder and  *)
(* addPayment, returns it; and a status update answered without error has   *)
(* applied the requested status.                                            *)
C19_NoErrorSwallowed ==
  [][\A c \in Clients : \A t \in InFlight(c) :
       /\ (MutationResumes(c, t) /\ ~t.ok) => error'[c] = "error"
       /\ (t.op = "updateOrderStatus" /\ t.pc = "update" /\ Left(c, t) /\ t.id \in OrderIds) =>
            \A u \in BagToSet(tasks'[c]) :
              (u.op = "updateOrderStatus" /\ u.pc = "updated" /\ u.id = t.id /\ u.stamp = t.stamp
               /\ u.status = t.status /\ u.ok)
                => dbOrders'[t.id].status = t.status]_vars

C21_KarigarStitchesPending ==
  [][\A c \in Clients : \A t \in InFlight(c) :
       (/\ isKarigar(c)
        /\ t.op = "updateOrderStatus" /\ t.pc = "update" /\ t.status = "stitched"
        /\ t.id \in OrderIds /\ dbOrders[t.id].status = "pending"
        /\ Left(c, t)) =>
         \E u \in BagToSet(tasks'[c]) :
           /\ u.op = "updateOrderStatus" /\ u.pc = "updated"
           /\ u.id = t.id /\ u.status = t.status /\ u.stamp = t.stamp
           /\ \/ u.err = "network" /\ ~u.ok /\ dbOrders' = dbOrders
              \/ /\ u.err = "none" /\ u.ok
                 /\ dbOrders'[t.id].status = "stitched"
                 /\ t.stamp > 0
                 /\ dbOrders'[t.id].completed_at = t.stamp]_vars

(* a karigar's request pending -> stitched has been answered and the order *)
(* is stitched with its completed_at                                        *)
C21_Witness ==
  \E c \in Clients : \E t \in InFlight(c) :
    /\ isKarigar(c)
    /\ t.op = "updateOrderStatus" /\ t.pc = "updated"
    /\ t.prior = "pending" /\ t.status = "stitched" /\ t.ok
    /\ dbOrders[t.id].status = "stitched"
    /\ dbOrders[t.id].completed_at = t.stamp

(* C22: every order is created in status pending with completed_at and   *)
(* delivered_at unset, whatever status or timestamps the orderData passed   *)
(* to createOrder carries.                                                  *)
C22_CreatedPending ==
  [][\A o \in 1..Len(dbOrders') :
       o > Len(dbOrders) =>
         /\ dbOrders'[o].status = "pending"
         /\ dbOrders'[o].completed_at = 0
         /\ dbOrders'[o].delivered_at = 0]_vars

(* C23: addPayment changes remaining_amount only of the order named by   *)
(* payment.order_id: the update of addPayment is addressed to the order the *)
(* payment was inserted for and leaves every other order as it is.          *)
C23_PaymentDecrementsItsOrder ==
  [][\A c \in Clients : \A t \in InFlight(c) :
       (t.op = "addPayment" /\ t.pc = "update" /\ Left(c, t)) =>
         /\ t.target = t.id
         /\ \A o \in OrderIds : o # t.id => dbOrders'[o] = dbOrders[o]]_vars

(* C24: when addPayment returns success, the store agrees with the        *)
(* database on the order the payment was made for: currentOrder, when it is *)
(* that order, and the entry of that order in the store's orders list carry *)
(* the persisted remaining_amount.                                          *)
C24_ViewAgreesAfterPayment ==
  [][\A c \in Clients : \A t \in InFlight(c) :
       (t.op = "addPayment" /\ t.pc = "updated" /\ t.id \in OrderIds /\ Left(c, t)) =>
         /\ currentOrder'[c].id = t.id =>
              currentOrder'[c].remaining_amount = dbOrders'[t.id].remaining_amount
         /\ \A i \in 1..Len(orders'[c]) :
              orders'[c][i].id = t.id =>
                orders'[c][i].remaining_amount = dbOrders'[t.id].remaining_amount]_vars

(* C25: when the update of updateOrderStatus fails, the table is          *)
(* unchanged, the store's orders list and currentOrder keep the old status  *)
(* and timestamps and the store's error is set; the store changes an        *)
(* order only after an update that was answered without error and made the  *)
(* order's persisted status the requested one.                              *)
C25_FailedUpdateLeavesStore ==
  [][\A c \in Clients : \A t \in InFlight(c) :
       /\ (t.op = "updateOrderStatus" /\ t.pc = "update" /\ t.id \in OrderIds /\ Left(c, t)) =>
            \E u \in BagToSet(tasks'[c]) :
              /\ u.op = "updateOrderStatus" /\ u.pc = "updated"
              /\ u.id = t.id /\ u.status = t.status /\ u.stamp = t.stamp
              /\ IF u.ok THEN dbOrders'[t.id] = ApplyUpdateData(dbOrders[t.id], t.status, t.stamp)
                         ELSE dbOrders' = dbOrders
       /\ (t.op = "updateOrderStatus" /\ t.pc = "updated" /\ Left(c, t)) =>
            IF t.ok
              THEN /\ orders'[c] = MapOrders(orders[c], t.id, t.status, t.stamp)
                   /\ error'[c] = error[c]
              ELSE /\ orders'[c] = orders[c]
                   /\ currentOrder'[c] = currentOrder[c]
                   /\ error'[c] = "error"]_vars

(* a failed updateOrderStatus for a listed order has returned: the error  *)
(* is set and the listed order is as it was created                         *)
C25_Witness ==
  \E c \in Clients :
    /\ InFlight(c) = {}
    /\ error[c] = "error"
    /\ Len(orders[c]) = 1
    /\ orders[c][1].status = "pending" /\ orders[c][1].completed_at = 0
    /\ dbOrders[orders[c][1].id].status = "pending"
    /\ acts > 1

(* C26: the notification store's unreadCount equals the number of        *)
(* notifications in the store whose read flag is false, and is not negative *)
C26_UnreadCountMatches ==
  \A c \in Clients :
    /\ unreadCount[c] = Unread(notifications[c])
    /\ unreadCount[c] >= 0

(* C27: the order store's orders list never holds two entries with the   *)
(* same order id.                                                            *)
C27_NoDuplicateOrders ==
  \A c \in Clients : \A i, j \in 1..Len(orders[c]) :
    i # j => orders[c][i].id # orders[c][j].id

(* operations of the order store *)
OrderStoreOps ==
  {"fetchOrders", "searchOrderBySerial", "getOrderById", "createOrder",
   "updateOrderStatus", "addPayment"}

(* C28: the order store's isLoading is true in every state in which an    *)
(* operation of the order store is in flight on the device, and false when  *)
(* none is.                                                                  *)
C28_LoadingWhileInFlight ==
  \A c \in Clients :
    isLoading[c] <=> (\E t \in InFlight(c) : t.op \in OrderStoreOps)

(* C29: in every state of the auth store user is non-null exactly when   *)
(* profile is non-null, and a session with a user has exactly one role.     *)
C29_UserIffProfile ==
  \A c \in Clients :
    /\ auth[c].user # "none" <=> auth[c].profile # "none"
    /\ auth[c].user # "none" => auth[c].profile \in Roles

(* the digits of a typed number are 05 or 5 followed by 8 digits *)
SaudiMobile(phoneNumber) ==
  LET d == DigitsOnly(phoneNumber)
      rest == IF Len(d) > 0 /\ d[1] = "0" THEN SubSeq(d, 2, Len(d)) ELSE d
  IN Len(rest) = 9 /\ rest[1] = "5"

(* C30: sendWhatsAppMessage opens a link exactly for the phone numbers     *)
(* that are 05 or 5 followed by 8 digits once the non-digits are removed,   *)
(* and the phone part of the link it opens is 966 followed by exactly 9     *)
(* digits that begin with 5.                                                *)
C30_WhatsAppLink ==
  (probe.fn = "sendWhatsAppMessage" /\ probe.result = "done") =>
    /\ probe.opened # <<>> <=> SaudiMobile(probe.phone)
    /\ probe.opened # <<>> =>
         /\ Len(probe.opened) = 3 + 9
         /\ SubSeq(probe.opened, 1, 3) = <<"9", "6", "6">>
         /\ probe.opened[4] = "5"
         /\ \A i \in 1..Len(probe.opened) : IsDigit(probe.opened[i])

(* a link was opened for a number typed with a leading 0 and a separator  *)
C30_Witness ==
  /\ probe.fn = "sendWhatsAppMessage" /\ probe.result = "done"
  /\ probe.phone = <<"0", "-", "5", "1", "2", "3", "4", " ", "5", "6", "7", "8">>
  /\ probe.opened = <<"9", "6", "6", "5", "1", "2", "3", "4", "5", "6", "7", "8">>

====
